---- MODULE Spec2Model ----
(***************************************************************************)
(* Rhyme analyser (src/components/rhymeAnalyzer.js) and its page script    *)
(* (src/app.js).                                                           *)
(*                                                                         *)
(* Indices of lines and characters are 0-based as in the source; TLA+      *)
(* sequences are 1-based, so charInfos[i] of the source is charInfos[i+1]. *)
(* The source's Chinese literals are written in pinyin, one token per      *)
(* character: zi ju wei ya yun = "N-character end-of-line rhyme",          *)
(* zi fei ju wei ju jian ya yun = "N-character non-end inter-line rhyme",  *)
(* zi ju nei ya yun = "N-character in-line rhyme"; the group label         *)
(* "weizhi" is the source's label for an unknown rhyme group.              *)
(***************************************************************************)
EXTENDS Integers, Sequences, FiniteSets, TLC

(* one call of analyzeRhymePatterns: its arguments, its position, the      *)
(* Error it threw, its locals and its return value                         *)
VARIABLES verse, options, pc, error, allSequences, allPossibleMatches,
          matchIndex, markedPositions, analysisResults, endRhymeCount,
          internalRhymeCount, finalResults, summary

(* the converter's module state (lines 437-438), the position of the       *)
(* loadRhymeMappings call made by the page, and the last call of           *)
(* convertTextToRhymeGroups or getRhymeInfo with its outcome               *)
VARIABLES rhymeMappings, isMappingsLoaded, loadState, initAlerted, lastCall

analyzerVars == <<verse, options, pc, error, allSequences, allPossibleMatches,
                  matchIndex, markedPositions, analysisResults, endRhymeCount,
                  internalRhymeCount, finalResults, summary>>

converterVars == <<rhymeMappings, isMappingsLoaded, loadState, initAlerted, lastCall>>

(* the calls of analyzeRhymePatterns made so far by the page (app.js line  *)
(* 108, once per input event), and for every input analysed so far what    *)
(* the first call on it returned or threw                                   *)
VARIABLES callsMade, firstOutcome

sessionVars == <<callsMade, firstOutcome>>

vars == <<analyzerVars, converterVars, sessionVars>>

-----------------------------------------------------------------------------
(* Bounds of the input space *)

MaxLines == 2

MaxChars == 4

MaxSoloLen == 5

MaxTall == 6

MaxShapeLines == 2

MaxShapeLen == 1

MaxKeys == 11

-----------------------------------------------------------------------------
(* Small arithmetic helpers (Math.abs, Math.min) *)

Abs(x) == IF x < 0 THEN -x ELSE x

Min(x, y) == IF x <= y THEN x ELSE y

-----------------------------------------------------------------------------
(* JavaScript values as the validation code sees them.  A value that is    *)
(* not a string is the sentinel Undefined; typeof v === 'string' is        *)
(* IsString(v).                                                            *)

Undefined == "<undefined>"

IsString(v) == v # Undefined

UnknownGroup == "weizhi"

CharInfo(c, p, n, s) ==
    [isObject |-> TRUE, char |-> c, pinyin |-> p, normalGroup |-> n, strictGroup |-> s]

Line(cs) ==
    [isObject |-> TRUE, line |-> "text", charInfosIsArray |-> TRUE, charInfos |-> cs]

Verse(ls) == [isArray |-> TRUE, items |-> ls]

-----------------------------------------------------------------------------
(* getSequenceKey: sequence.join('_') *)

RECURSIVE JoinWith(_, _)
JoinWith(seq, sep) ==
    IF Len(seq) = 0 THEN ""
    ELSE IF Len(seq) = 1 THEN seq[1]
    ELSE seq[1] \o sep \o JoinWith(Tail(seq), sep)

getSequenceKey(sequence) == JoinWith(sequence, "_")

(* Array.prototype.sort((a, b) => b.key - a.key): stable, descending.      *)
(* keys[i] is the sort key of the i-th element; the element at place i     *)
(* goes behind every element of a greater key and behind the elements of   *)
(* the same key that stood before it.                                      *)
SortDesc(seq, keys) ==
    LET n == Len(seq)
        place == [i \in 1..n |->
                    Cardinality({j \in 1..n : \/ keys[j] > keys[i]
                                              \/ keys[j] = keys[i] /\ j < i}) + 1]
        order == [k \in 1..n |-> CHOOSE i \in 1..n : place[i] = k]
    IN  [k \in 1..n |-> seq[order[k]]]

-----------------------------------------------------------------------------
(* extractAllRhymeSequences *)

(* mutant of IsUnknownLabel: the empty label is taken for a known one *)
IsUnknownLabelOnlySentinel(g) == g = UnknownGroup

IsUnknownLabel(g) == g = UnknownGroup \/ g = ""

(* the inner loop over i = startIndex..endIndex: the labels pushed before  *)
(* the first unknown one, and whether an unknown one was met               *)
RECURSIVE ScanSpan(_, _, _)
ScanSpan(charInfos, i, endIndex) ==
    IF i > endIndex
    THEN [hasUnknownRhyme |-> FALSE, rhymeSequence |-> <<>>, chars |-> <<>>, pinyins |-> <<>>]
    ELSE IF IsUnknownLabel(charInfos[i + 1].normalGroup)
         THEN [hasUnknownRhyme |-> TRUE, rhymeSequence |-> <<>>, chars |-> <<>>, pinyins |-> <<>>]
         ELSE LET rest == ScanSpan(charInfos, i + 1, endIndex)
              IN  [hasUnknownRhyme |-> rest.hasUnknownRhyme,
                   rhymeSequence |-> <<charInfos[i + 1].normalGroup>> \o rest.rhymeSequence,
                   chars |-> <<charInfos[i + 1].char>> \o rest.chars,
                   pinyins |-> <<charInfos[i + 1].pinyin>> \o rest.pinyins]

SpanRecord(lineIndex, startIndex, endIndex, maxLength, scan) ==
    LET sequenceLength == endIndex - startIndex + 1
        isEndOfLine == endIndex = maxLength - 1
    IN  [lineIndex |-> lineIndex,
         startIndex |-> startIndex,
         endIndex |-> endIndex,
         length |-> sequenceLength,
         sequence |-> scan.rhymeSequence,
         sequenceKey |-> getSequenceKey(scan.rhymeSequence),
         chars |-> scan.chars,
         pinyins |-> scan.pinyins,
         isEndOfLine |-> isEndOfLine,
         priorityScore |-> (IF isEndOfLine THEN 1000 ELSE 0) + sequenceLength * 10]

(* the two nested loops over startIndex and endIndex of one line *)
RECURSIVE LineSpans(_, _, _, _)
LineSpans(charInfos, lineIndex, startIndex, endIndex) ==
    LET maxLength == Len(charInfos)
    IN  IF startIndex >= maxLength THEN <<>>
        ELSE IF endIndex >= maxLength
             THEN LineSpans(charInfos, lineIndex, startIndex + 1, startIndex + 1)
             ELSE LET scan == ScanSpan(charInfos, startIndex, endIndex)
                  IN  (IF ~scan.hasUnknownRhyme
                       THEN <<SpanRecord(lineIndex, startIndex, endIndex, maxLength, scan)>>
                       ELSE <<>>)
                      \o LineSpans(charInfos, lineIndex, startIndex, endIndex + 1)

RECURSIVE SpansFromLine(_, _)
SpansFromLine(rhymeGroups, lineIndex) ==
    IF lineIndex >= Len(rhymeGroups) THEN <<>>
    ELSE LineSpans(rhymeGroups[lineIndex + 1].charInfos, lineIndex, 0, 0)
         \o SpansFromLine(rhymeGroups, lineIndex + 1)

extractAllRhymeSequences(rhymeGroups) ==
    LET allSeqs == SpansFromLine(rhymeGroups, 0)
    IN  SortDesc(allSeqs, [k \in 1..Len(allSeqs) |-> allSeqs[k].priorityScore])

-----------------------------------------------------------------------------
(* Helpers of the matching loop *)

(* mutants of isWithinFourLines: a strict comparison, and a gate one line  *)
(* too wide                                                                *)
isWithinFourLinesStrict(seq1, seq2, tolerance) ==
    Abs(seq2.lineIndex - seq1.lineIndex) < tolerance

isWithinFourLinesOffByOne(seq1, seq2, tolerance) ==
    Abs(seq2.lineIndex - seq1.lineIndex) <= tolerance + 1

isWithinFourLines(seq1, seq2, tolerance) ==
    LET lineDiff == Abs(seq2.lineIndex - seq1.lineIndex)
    IN  lineDiff <= tolerance

(* the key `${lineIndex}-${i}` of one character cell *)
PosKey(lineIndex, i) == ToString(lineIndex) \o "-" \o ToString(i)

(* mutant of isSequenceMarked: only the first cell of the span is looked up *)
isSequenceMarkedFirstCellOnly(seq, marked) ==
    PosKey(seq.lineIndex, seq.startIndex) \in marked

isSequenceMarked(seq, marked) ==
    \E i \in seq.startIndex..seq.endIndex : PosKey(seq.lineIndex, i) \in marked

markSequencePositions(seq, marked) ==
    marked \cup {PosKey(seq.lineIndex, i) : i \in seq.startIndex..seq.endIndex}

(* the interval computed at lines 141-157 and again at lines 302-313 *)
SameLineInterval(seq1, seq2) ==
    LET start1 == seq1.startIndex
        end1 == seq1.endIndex
        start2 == seq2.startIndex
        end2 == seq2.endIndex
    IN  IF end1 < start2 THEN start2 - end1 - 1
        ELSE IF end2 < start1 THEN start1 - end2 - 1
        ELSE 0

(* mutant of isInternalRhymeValid: a strict comparison *)
isInternalRhymeValidStrict(seq1, seq2, tolerance) ==
    IF seq1.lineIndex # seq2.lineIndex THEN TRUE
    ELSE SameLineInterval(seq1, seq2) < Min(seq1.length, seq2.length) + tolerance

isInternalRhymeValid(seq1, seq2, tolerance) ==
    IF seq1.lineIndex # seq2.lineIndex THEN TRUE
    ELSE LET interval == SameLineInterval(seq1, seq2)
             rhymeCount == Min(seq1.length, seq2.length)
         IN  interval <= rhymeCount + tolerance

(* the three rhymeType templates, one token per character *)
EndRhymeType(n) == <<ToString(n), "zi", "ju", "wei", "ya", "yun">>

InterLineRhymeType(n) == <<ToString(n), "zi", "fei", "ju", "wei", "ju", "jian", "ya", "yun">>

InternalRhymeType(n) == <<ToString(n), "zi", "ju", "nei", "ya", "yun">>

(* String.prototype.includes *)
Includes(str, sub) ==
    \E k \in 1..(Len(str) - Len(sub) + 1) : SubSeq(str, k, k + Len(sub) - 1) = sub

NoMatch == [isValid |-> FALSE, rhymeType |-> <<>>, interval |-> 0, priority |-> 0]

(* branch 1 of the classification: at least one span is end-of-line *)
EndRhymeBranch(seq1, seq2) ==
    LET interval == Abs(seq1.lineIndex - seq2.lineIndex)
    IN  [isValid |-> TRUE, rhymeType |-> EndRhymeType(seq1.length),
         interval |-> interval, priority |-> 1000 - interval]

(* mutant of InterLineBranch: identical characters are not skipped *)
InterLineBranchKeepsRepeats(seq1, seq2, rhymeGroups, opts) ==
    LET line1Length == Len(rhymeGroups[seq1.lineIndex + 1].charInfos)
        line2Length == Len(rhymeGroups[seq2.lineIndex + 1].charInfos)
        forwardDiff == Abs(seq1.startIndex - seq2.startIndex)
        reverseDiff == Abs((line1Length - 1 - seq1.endIndex) - (line2Length - 1 - seq2.endIndex))
        interval == Min(forwardDiff, reverseDiff)
    IN  IF interval <= opts.interLineTolerance
        THEN [isValid |-> TRUE, rhymeType |-> InterLineRhymeType(seq1.length),
              interval |-> interval, priority |-> 500 - interval]
        ELSE [NoMatch EXCEPT !.interval = interval]

(* branch 2: the spans lie on different lines *)
InterLineBranch(seq1, seq2, rhymeGroups, opts) ==
    LET chars1 == JoinWith(seq1.chars, "")
        chars2 == JoinWith(seq2.chars, "")
        line1Length == Len(rhymeGroups[seq1.lineIndex + 1].charInfos)
        line2Length == Len(rhymeGroups[seq2.lineIndex + 1].charInfos)
        forwardDiff == Abs(seq1.startIndex - seq2.startIndex)
        reverse1 == line1Length - 1 - seq1.endIndex
        reverse2 == line2Length - 1 - seq2.endIndex
        reverseDiff == Abs(reverse1 - reverse2)
        interval == Min(forwardDiff, reverseDiff)
    IN  IF chars1 = chars2 THEN NoMatch
        ELSE IF interval <= opts.interLineTolerance
             THEN [isValid |-> TRUE, rhymeType |-> InterLineRhymeType(seq1.length),
                   interval |-> interval, priority |-> 500 - interval]
             ELSE [NoMatch EXCEPT !.interval = interval]

(* branch 3: the spans lie on the same line *)
InternalBranch(seq1, seq2, opts) ==
    LET interval == SameLineInterval(seq1, seq2)
    IN  IF isInternalRhymeValid(seq1, seq2, opts.internalRhymeTolerance)
        THEN [isValid |-> TRUE, rhymeType |-> InternalRhymeType(seq1.length),
              interval |-> interval, priority |-> 100 - interval]
        ELSE [NoMatch EXCEPT !.interval = interval]

(* the body of the inner loop for one pair (seq1, seq2), lines 244-341 *)
ClassifyPair(seq1, seq2, rhymeGroups, opts) ==
    IF ~isWithinFourLines(seq1, seq2, opts.interLineLineDiffTolerance) THEN NoMatch
    ELSE IF seq1.sequenceKey # seq2.sequenceKey THEN NoMatch
    ELSE IF opts.detectEndRhyme /\ (seq1.isEndOfLine \/ seq2.isEndOfLine)
         THEN EndRhymeBranch(seq1, seq2)
    ELSE IF opts.detectInterLineRhyme /\ seq1.lineIndex # seq2.lineIndex
         THEN InterLineBranch(seq1, seq2, rhymeGroups, opts)
    ELSE IF opts.detectInternalRhyme /\ seq1.lineIndex = seq2.lineIndex
         THEN InternalBranch(seq1, seq2, opts)
    ELSE NoMatch

MatchRecord(seq1, seq2, c) ==
    LET lengthPriority == seq1.length * 10
        totalPriority == c.priority + lengthPriority
    IN  [seq1 |-> seq1,
         seq2 |-> seq2,
         rhymeType |-> c.rhymeType,
         interval |-> c.interval,
         priority |-> totalPriority,
         sequenceLength |-> seq1.length,
         sequence |-> seq1.sequence,
         sequenceKey |-> seq1.sequenceKey]

(* the inner loop over j of lines 241-342 for one i, in generation order *)
RECURSIVE MatchesOfRow(_, _, _, _, _)
MatchesOfRow(seqs, i, j, rhymeGroups, opts) ==
    IF j > Len(seqs) THEN <<>>
    ELSE LET c == ClassifyPair(seqs[i], seqs[j], rhymeGroups, opts)
         IN  (IF c.isValid THEN <<MatchRecord(seqs[i], seqs[j], c)>> ELSE <<>>)
             \o MatchesOfRow(seqs, i, j + 1, rhymeGroups, opts)

(* the outer loop over i of lines 238-343 *)
RECURSIVE MatchesFrom(_, _, _, _)
MatchesFrom(seqs, i, rhymeGroups, opts) ==
    IF i > Len(seqs) THEN <<>>
    ELSE MatchesOfRow(seqs, i, i + 1, rhymeGroups, opts)
         \o MatchesFrom(seqs, i + 1, rhymeGroups, opts)

collectMatches(seqs, rhymeGroups, opts) == MatchesFrom(seqs, 1, rhymeGroups, opts)

(* mutant of sortMatches: ascending priority *)
sortMatchesAscending(matches) ==
    SortDesc(matches, [k \in 1..Len(matches) |-> 0 - matches[k].priority])

sortMatches(matches) ==
    SortDesc(matches, [k \in 1..Len(matches) |-> matches[k].priority])

-----------------------------------------------------------------------------
(* Greedy selection, lines 354-388 *)

(* mutant of canCommit: only the first span is looked up *)
canCommitFirstSpanOnly(match, marked) == ~isSequenceMarked(match.seq1, marked)

canCommit(match, marked) ==
    ~isSequenceMarked(match.seq1, marked) /\ ~isSequenceMarked(match.seq2, marked)

(* rhymeType.toLowerCase().replace(/\s+/g, '_'): the templates hold no     *)
(* upper-case letter and no white space, so every token maps to itself     *)
TypeOfRhyme(rhymeType) == [k \in 1..Len(rhymeType) |-> rhymeType[k]]

RhymeResult(match) ==
    [type |-> TypeOfRhyme(match.rhymeType),
     rhymeType |-> match.rhymeType,
     rhymeGroup |-> match.sequence[1],
     sequenceLength |-> match.sequenceLength,
     sequence |-> match.sequence,
     positions |-> << [line |-> match.seq1.lineIndex, char |-> match.seq1.startIndex,
                       length |-> match.seq1.length],
                      [line |-> match.seq2.lineIndex, char |-> match.seq2.startIndex,
                       length |-> match.seq2.length] >>,
     chars |-> <<match.seq1.chars, match.seq2.chars>>,
     pinyins |-> <<match.seq1.pinyins, match.seq2.pinyins>>,
     similarity |-> 1]

countsAsEndRhyme(rhymeType) == Includes(rhymeType, <<"ju", "wei">>)

-----------------------------------------------------------------------------
(* Identifiers and colours, lines 390-411 *)

colorPalette ==
    << "#FF5733", "#33FF57", "#3357FF", "#FF33A8", "#FFC300",
       "#C70039", "#900C3F", "#581845", "#1ABC9C", "#3498DB" >>

(* String(n).padStart(3, '0') *)
PadStart3(n) ==
    LET str == ToString(n)
    IN  IF Len(str) >= 3 THEN str
        ELSE IF Len(str) = 2 THEN "0" \o str
        ELSE "00" \o str

(* mutant of AssignFrom: the colour is remembered under the first rhyme    *)
(* group of the sequence instead of under its sequenceKey                  *)
RECURSIVE AssignFromKeyedByFirstGroup(_, _, _, _)
AssignFromKeyedByFirstGroup(results, index, colors, colorIndex) ==
    IF index > Len(results) THEN <<>>
    ELSE LET sequenceKey == results[index].sequence[1]
             has == \E k \in 1..Len(colors) : colors[k][1] = sequenceKey
             newColors == IF has THEN colors
                          ELSE Append(colors,
                                 <<sequenceKey,
                                   colorPalette[(colorIndex % Len(colorPalette)) + 1]>>)
             newIndex == IF has THEN colorIndex ELSE colorIndex + 1
             color == (CHOOSE k \in 1..Len(newColors) : newColors[k][1] = sequenceKey)
         IN  << [id |-> "rhyme_" \o PadStart3(index), color |-> newColors[color][2]]
                @@ results[index] >>
             \o AssignFromKeyedByFirstGroup(results, index + 1, newColors, newIndex)

(* the map callback applied to results 1..n in order; colors is the Map    *)
(* rhymeGroupColors as a sequence of <<key, color>> in insertion order     *)
RECURSIVE AssignFrom(_, _, _, _)
AssignFrom(results, index, colors, colorIndex) ==
    IF index > Len(results) THEN <<>>
    ELSE LET sequenceKey == getSequenceKey(results[index].sequence)
             has == \E k \in 1..Len(colors) : colors[k][1] = sequenceKey
             newColors == IF has THEN colors
                          ELSE Append(colors,
                                 <<sequenceKey,
                                   colorPalette[(colorIndex % Len(colorPalette)) + 1]>>)
             newIndex == IF has THEN colorIndex ELSE colorIndex + 1
             color == (CHOOSE k \in 1..Len(newColors) : newColors[k][1] = sequenceKey)
         IN  << [id |-> "rhyme_" \o PadStart3(index), color |-> newColors[color][2]]
                @@ results[index] >>
             \o AssignFrom(results, index + 1, newColors, newIndex)

assignIdsAndColors(results) == AssignFrom(results, 1, <<>>, 0)

-----------------------------------------------------------------------------
(* Input validation, lines 183-216; the messages of the three Errors *)

NoError == "none"

InputShapeError == "input must be an array of rhyme groups"

LineShapeError == "rhyme group has an invalid format"

CharInfoShapeError == "rhyme group character info has an invalid format"

charInfoIsValid(charInfo) ==
    /\ charInfo.isObject
    /\ IsString(charInfo.char)
    /\ IsString(charInfo.pinyin)
    /\ IsString(charInfo.normalGroup)
    /\ IsString(charInfo.strictGroup)

groupIsValid(group) ==
    group.isObject /\ IsString(group.line) /\ group.charInfosIsArray

RECURSIVE charInfosError(_, _)
charInfosError(charInfos, k) ==
    IF k > Len(charInfos) THEN NoError
    ELSE IF ~charInfoIsValid(charInfos[k]) THEN CharInfoShapeError
    ELSE charInfosError(charInfos, k + 1)

(* mutant of groupsError: only the first group is checked *)
groupsErrorFirstOnly(items, g) ==
    IF g > Len(items) THEN NoError
    ELSE IF ~groupIsValid(items[g]) THEN LineShapeError
    ELSE charInfosError(items[g].charInfos, 1)

RECURSIVE groupsError(_, _)
groupsError(items, g) ==
    IF g > Len(items) THEN NoError
    ELSE IF ~groupIsValid(items[g]) THEN LineShapeError
    ELSE LET e == charInfosError(items[g].charInfos, 1)
         IN  IF e # NoError THEN e ELSE groupsError(items, g + 1)

(* mutant of validateInput: an empty array is refused *)
validateInputRefusesEmpty(rhymeGroups) ==
    IF ~rhymeGroups.isArray \/ Len(rhymeGroups.items) = 0 THEN InputShapeError
    ELSE groupsError(rhymeGroups.items, 1)

validateInput(rhymeGroups) ==
    IF ~rhymeGroups.isArray THEN InputShapeError
    ELSE IF Len(rhymeGroups.items) = 0 THEN NoError
    ELSE groupsError(rhymeGroups.items, 1)

-----------------------------------------------------------------------------
(* Option defaults, lines 219-226 *)

DefaultInterLineTolerance == 2

DefaultLineDiffTolerance == 4

DefaultInternalRhymeTolerance == 0

Options(dEnd, dInter, dInternal, ilt, ldt, irt) ==
    [detectEndRhyme |-> dEnd, detectInterLineRhyme |-> dInter,
     detectInternalRhyme |-> dInternal, interLineTolerance |-> ilt,
     interLineLineDiffTolerance |-> ldt, internalRhymeTolerance |-> irt]

DefaultOptions ==
    Options(TRUE, TRUE, TRUE, DefaultInterLineTolerance, DefaultLineDiffTolerance,
            DefaultInternalRhymeTolerance)

-----------------------------------------------------------------------------
(* The inputs analysed *)

GroupA1 == CharInfo("c1", "p1", "a", "a")

GroupA2 == CharInfo("c2", "p2", "a", "a")

GroupB == CharInfo("c3", "p3", "b", "b")

GroupUnknown == CharInfo("c4", "p4", UnknownGroup, UnknownGroup)

GroupEmpty == CharInfo("c5", "", "", "")

GroupJoined == CharInfo("c6", "p6", "a_a", "a_a")

SeqsUpTo(S, lo, hi) == UNION {[1..k -> S] : k \in lo..hi}

(* the verses of at most maxLines lines and at most maxChars characters in *)
(* all, every line with at least one character                             *)
RECURSIVE LinesWithin(_, _, _)
LinesWithin(alphabet, maxLines, maxChars) ==
    IF maxLines = 0 \/ maxChars = 0 THEN {<<>>}
    ELSE {<<>>} \cup
         UNION {{<<Line(cs)>> \o rest :
                    rest \in LinesWithin(alphabet, maxLines - 1, maxChars - Len(cs))} :
                cs \in SeqsUpTo(alphabet, 1, maxChars)}

(* verses of up to MaxLines lines and MaxChars characters, lines one apart *)
(* being within the line distance tolerance; interLineTolerance, which is  *)
(* read in the inter-line branch only, varies when that branch is enabled  *)
GeneralInputs ==
    {Verse(ls) : ls \in LinesWithin({GroupA1, GroupA2, GroupB, GroupUnknown},
                                    MaxLines, MaxChars)}
        \X ({Options(e, TRUE, i, t, 1, DefaultInternalRhymeTolerance) :
                e \in BOOLEAN, i \in BOOLEAN, t \in {0, 1}}
            \cup {Options(e, FALSE, i, 0, 1, DefaultInternalRhymeTolerance) :
                e \in BOOLEAN, i \in BOOLEAN})

(* one line of up to MaxSoloLen characters, with unknown, empty and        *)
(* underscore-bearing labels                                               *)
SoloInputs ==
    LET lines == {Line(cs) : cs \in SeqsUpTo({GroupA1, GroupJoined, GroupUnknown, GroupEmpty},
                                             1, MaxSoloLen)}
    IN  {Verse(<<l>>) : l \in lines}
        \X {Options(e, TRUE, TRUE, DefaultInterLineTolerance, DefaultLineDiffTolerance, t) :
              e \in BOOLEAN, t \in {DefaultInternalRhymeTolerance, 1}}

(* two to MaxTall lines of one character, with the default line distance   *)
(* tolerance and a smaller one                                             *)
TallInputs ==
    LET lines == {Line(<<c>>) : c \in {GroupA1, GroupA2, GroupB}}
    IN  {Verse(ls) : ls \in SeqsUpTo(lines, 2, MaxTall)}
        \X {Options(e, il, TRUE, DefaultInterLineTolerance, d, DefaultInternalRhymeTolerance) :
              e \in BOOLEAN, il \in BOOLEAN, d \in {DefaultLineDiffTolerance, 1}}

(* values of the wrong shape: a verse that is no array, a line that is no  *)
(* object or lacks its text or its character array, a character entry      *)
(* that is no object or lacks one of its four strings                      *)
BadCharInfos ==
    {[GroupA1 EXCEPT !.isObject = FALSE], [GroupA1 EXCEPT !.char = Undefined],
     [GroupA1 EXCEPT !.pinyin = Undefined], [GroupA1 EXCEPT !.normalGroup = Undefined],
     [GroupA1 EXCEPT !.strictGroup = Undefined]}

BadLines ==
    {[Line(<<>>) EXCEPT !.isObject = FALSE], [Line(<<GroupA1>>) EXCEPT !.line = Undefined],
     [Line(<<>>) EXCEPT !.charInfosIsArray = FALSE]}

ShapeInputs ==
    LET lines == {Line(cs) : cs \in SeqsUpTo({GroupA1} \cup BadCharInfos, 1, MaxShapeLen)}
                 \cup BadLines
    IN  ({[isArray |-> FALSE, items |-> <<>>]}
         \cup {Verse(ls) : ls \in SeqsUpTo(lines, 1, MaxShapeLines)})
        \X {DefaultOptions}

(* verses of up to MaxKeys lines of two characters of one rhyme group, the *)
(* groups of the lines cycling through the first `period` of MaxKeys       *)
(* groups                                                                  *)
GroupOfKey(k) == CharInfo("c7", "p7", "g" \o ToString(k), "g" \o ToString(k))

PaletteInputs ==
    {Verse([l \in 1..n |-> Line(<<GroupOfKey(((l - 1) % period) + 1),
                                   GroupOfKey(((l - 1) % period) + 1)>>)]) :
        n \in 1..MaxKeys, period \in 1..MaxKeys}
        \X {Options(e, FALSE, TRUE, DefaultInterLineTolerance,
                    DefaultLineDiffTolerance, DefaultInternalRhymeTolerance) :
              e \in BOOLEAN}

Inputs == GeneralInputs \cup SoloInputs \cup TallInputs \cup ShapeInputs \cup PaletteInputs

-----------------------------------------------------------------------------
(* The converter: loadRhymeMappings, getRhymeInfo, convertTextToRhymeGroups *)
(* (lines 437-553).  A text is a sequence of characters; "SP" is a blank,   *)
(* "NL" a line feed, every other character stands for itself.               *)

MaxTextLen == 3

NotReadyError == "rhyme mappings not loaded yet, call loadRhymeMappings() first"

NotStringError == "input must be a string"

UnknownInfo == [normalGroup |-> UnknownGroup, strictGroup |-> UnknownGroup]

IsSpace(c) == c \in {"SP", "NL"}

(* String.prototype.trim *)
RECURSIVE TrimStart(_)
TrimStart(str) ==
    IF Len(str) > 0 /\ IsSpace(Head(str)) THEN TrimStart(Tail(str)) ELSE str

RECURSIVE TrimEnd(_)
TrimEnd(str) ==
    IF Len(str) > 0 /\ IsSpace(str[Len(str)])
    THEN TrimEnd(SubSeq(str, 1, Len(str) - 1))
    ELSE str

Trim(str) == TrimEnd(TrimStart(str))

(* text.split('\n') *)
RECURSIVE SplitLines(_, _)
SplitLines(str, cur) ==
    IF Len(str) = 0 THEN <<cur>>
    ELSE IF Head(str) = "NL" THEN <<cur>> \o SplitLines(Tail(str), <<>>)
    ELSE SplitLines(Tail(str), Append(cur, Head(str)))

(* the library call pinyin(char, {toneType: 'none', type: 'array'})[0]:     *)
(* the syllable of a Chinese character, any other character unchanged       *)
PinyinOfChar(c) ==
    IF c = "chuang" THEN <<"a", "n", "g">>
    ELSE IF c = "yue" THEN <<"u", "e">>
    ELSE <<c>>

(* the tables assets/rhyme-mappings.json may hold *)
MappingTables ==
    { [k \in {<<"a", "n", "g">>} |-> [normalGroup |-> "ang", strictGroup |-> "ang"]],
      [k \in {<<"a", "n", "g">>, <<"u", "e">>} |->
          IF k = <<"u", "e">> THEN [normalGroup |-> "ue", strictGroup |-> "ue"]
          ELSE [normalGroup |-> "ang", strictGroup |-> "uang"]] }

(* getRhymeInfo: the value returned or the Error thrown *)
getRhymeInfo(input, loaded, mappings) ==
    IF ~loaded THEN [outcome |-> "threw", error |-> NotReadyError, value |-> <<>>]
    ELSE IF ~input.isString \/ Trim(input.chars) = <<>>
         THEN [outcome |-> "returned", error |-> NoError, value |-> <<UnknownInfo>>]
    ELSE IF Trim(input.chars) \in DOMAIN mappings
         THEN [outcome |-> "returned", error |-> NoError,
               value |-> <<mappings[Trim(input.chars)]>>]
    ELSE [outcome |-> "returned", error |-> NoError, value |-> <<UnknownInfo>>]

RECURSIVE ConvertChars(_, _)
ConvertChars(chars, mappings) ==
    IF Len(chars) = 0 THEN <<>>
    ELSE LET pinyinStr == PinyinOfChar(Head(chars))
             groupInfo == getRhymeInfo([isString |-> TRUE, chars |-> pinyinStr],
                                       TRUE, mappings).value[1]
         IN  << [char |-> Head(chars), pinyin |-> pinyinStr,
                 normalGroup |-> groupInfo.normalGroup,
                 strictGroup |-> groupInfo.strictGroup] >>
             \o ConvertChars(Tail(chars), mappings)

RECURSIVE ConvertLines(_, _)
ConvertLines(lines, mappings) ==
    IF Len(lines) = 0 THEN <<>>
    ELSE (IF Trim(Head(lines)) # <<>>
          THEN << [line |-> Trim(Head(lines)),
                   charInfos |-> ConvertChars(Trim(Head(lines)), mappings)] >>
          ELSE <<>>)
         \o ConvertLines(Tail(lines), mappings)

(* convertTextToRhymeGroups: the value returned or the Error thrown *)
convertTextToRhymeGroups(input, loaded, mappings) ==
    IF ~input.isString
    THEN [outcome |-> "threw", error |-> NotStringError, value |-> <<>>]
    ELSE IF Trim(input.chars) = <<>>
         THEN [outcome |-> "returned", error |-> NoError, value |-> <<>>]
    ELSE IF ~loaded
         THEN [outcome |-> "threw", error |-> NotReadyError, value |-> <<>>]
    ELSE [outcome |-> "returned", error |-> NoError,
          value |-> ConvertLines(SplitLines(input.chars, <<>>), mappings)]

NoCall == [fn |-> "none", input |-> [isString |-> FALSE, chars |-> <<>>],
           outcome |-> "none", error |-> NoError, value |-> <<>>]

NotAString == [isString |-> FALSE, chars |-> <<>>]

Texts ==
    {NotAString} \cup
    {[isString |-> TRUE, chars |-> cs] :
        cs \in SeqsUpTo({"chuang", "yue", "SP", "NL"}, 0, MaxTextLen)}

Pinyins ==
    {NotAString} \cup
    {[isString |-> TRUE, chars |-> cs] :
        cs \in {<<>>, <<"SP">>, <<"a", "n", "g">>, <<"SP", "u", "e">>, <<"z">>}}

-----------------------------------------------------------------------------
(* State machine of one call of analyzeRhymePatterns *)

(* the summary literal of lines 191-198 *)
EmptySummary ==
    [totalLines |-> 0, totalRhymeCount |-> 0,
     rhymeTypes |-> [endRhyme |-> 0, internalRhyme |-> 0]]

(* the value of summary while the call has built no summary object *)
NoSummary ==
    [totalLines |-> -1, totalRhymeCount |-> -1,
     rhymeTypes |-> [endRhyme |-> -1, internalRhyme |-> -1]]

ConverterInit ==
    /\ rhymeMappings = <<>>
    /\ isMappingsLoaded = FALSE
    /\ loadState = "idle"
    /\ initAlerted = FALSE
    /\ lastCall = NoCall

AnalyzerInit(in) ==
    /\ verse = in[1]
    /\ options = in[2]
    /\ pc = "start"
    /\ error = NoError
    /\ allSequences = <<>>
    /\ allPossibleMatches = <<>>
    /\ matchIndex = 0
    /\ markedPositions = {}
    /\ analysisResults = <<>>
    /\ endRhymeCount = 0
    /\ internalRhymeCount = 0
    /\ finalResults = <<>>
    /\ summary = NoSummary

SessionInit ==
    /\ callsMade = 1
    /\ firstOutcome = <<>>

Init == ConverterInit /\ SessionInit /\ \E in \in Inputs : AnalyzerInit(in)

(* lines 183-216: the input checks, and the return of lines 187-200 when   *)
(* the verse is empty                                                      *)
Validate ==
    /\ pc = "start"
    /\ LET e == validateInput(verse)
       IN  /\ error' = e
           /\ pc' = IF e # NoError THEN "failed"
                    ELSE IF Len(verse.items) = 0 THEN "done"
                    ELSE "extract"
           /\ IF e = NoError /\ Len(verse.items) = 0
              THEN finalResults' = <<>> /\ summary' = EmptySummary
              ELSE UNCHANGED <<finalResults, summary>>
    /\ UNCHANGED converterVars
    /\ UNCHANGED sessionVars
    /\ UNCHANGED <<verse, options, allSequences, allPossibleMatches, matchIndex,
                   markedPositions, analysisResults, endRhymeCount,
                   internalRhymeCount>>

(* line 229 *)
Extract ==
    /\ pc = "extract"
    /\ allSequences' = extractAllRhymeSequences(verse.items)
    /\ pc' = "collect"
    /\ UNCHANGED converterVars
    /\ UNCHANGED sessionVars
    /\ UNCHANGED <<verse, options, error, allPossibleMatches, matchIndex,
                   markedPositions, analysisResults, endRhymeCount,
                   internalRhymeCount, finalResults, summary>>

(* lines 235-343 *)
Collect ==
    /\ pc = "collect"
    /\ allPossibleMatches' = collectMatches(allSequences, verse.items, options)
    /\ pc' = "sort"
    /\ UNCHANGED converterVars
    /\ UNCHANGED sessionVars
    /\ UNCHANGED <<verse, options, error, allSequences, matchIndex,
                   markedPositions, analysisResults, endRhymeCount,
                   internalRhymeCount, finalResults, summary>>

(* line 346 *)
Sort ==
    /\ pc = "sort"
    /\ allPossibleMatches' = sortMatches(allPossibleMatches)
    /\ matchIndex' = 1
    /\ pc' = "select"
    /\ UNCHANGED converterVars
    /\ UNCHANGED sessionVars
    /\ UNCHANGED <<verse, options, error, allSequences, markedPositions,
                   analysisResults, endRhymeCount, internalRhymeCount,
                   finalResults, summary>>

(* one iteration of the loop of lines 354-388 *)
Select ==
    /\ pc = "select"
    /\ matchIndex <= Len(allPossibleMatches)
    /\ LET match == allPossibleMatches[matchIndex]
       IN  IF canCommit(match, markedPositions)
           THEN /\ analysisResults' = Append(analysisResults, RhymeResult(match))
                /\ IF countsAsEndRhyme(match.rhymeType)
                   THEN /\ endRhymeCount' = endRhymeCount + 1
                        /\ UNCHANGED internalRhymeCount
                   ELSE /\ internalRhymeCount' = internalRhymeCount + 1
                        /\ UNCHANGED endRhymeCount
                /\ markedPositions' =
                       markSequencePositions(match.seq2,
                           markSequencePositions(match.seq1, markedPositions))
           ELSE UNCHANGED <<analysisResults, endRhymeCount, internalRhymeCount,
                            markedPositions>>
    /\ matchIndex' = matchIndex + 1
    /\ UNCHANGED converterVars
    /\ UNCHANGED sessionVars
    /\ UNCHANGED <<verse, options, pc, error, allSequences, allPossibleMatches,
                   finalResults, summary>>

(* lines 390-427: identifiers, colours and the summary *)
Assemble ==
    /\ pc = "select"
    /\ matchIndex > Len(allPossibleMatches)
    /\ finalResults' = assignIdsAndColors(analysisResults)
    /\ summary' = [totalLines |-> Len(verse.items),
                   totalRhymeCount |-> Len(analysisResults),
                   rhymeTypes |-> [endRhyme |-> endRhymeCount,
                                   internalRhyme |-> internalRhymeCount]]
    /\ pc' = "done"
    /\ UNCHANGED converterVars
    /\ UNCHANGED sessionVars
    /\ UNCHANGED <<verse, options, error, allSequences, allPossibleMatches,
                   matchIndex, markedPositions, analysisResults, endRhymeCount,
                   internalRhymeCount>>

Next == Validate \/ Extract \/ Collect \/ Sort \/ Select \/ Assemble

(* app.js line 8: the page calls loadRhymeMappings(); the fetch is pending *)
LoadCall ==
    /\ loadState = "idle"
    /\ loadState' = "pending"
    /\ UNCHANGED <<rhymeMappings, isMappingsLoaded, initAlerted, lastCall>>
    /\ UNCHANGED analyzerVars
    /\ UNCHANGED sessionVars

(* lines 447-453: the response is ok and parses *)
LoadSucceed ==
    /\ loadState = "pending"
    /\ \E table \in MappingTables : rhymeMappings' = table
    /\ isMappingsLoaded' = TRUE
    /\ loadState' = "loaded"
    /\ UNCHANGED <<initAlerted, lastCall>>
    /\ UNCHANGED analyzerVars
    /\ UNCHANGED sessionVars

(* lines 448-450 and 454-457: the fetch fails, the status is not ok or the *)
(* body does not parse; app.js lines 8-11 report it                        *)
LoadFail ==
    /\ loadState = "pending"
    /\ loadState' = "failed"
    /\ initAlerted' = TRUE
    /\ UNCHANGED <<rhymeMappings, isMappingsLoaded, lastCall>>
    /\ UNCHANGED analyzerVars
    /\ UNCHANGED sessionVars

ConvertCall ==
    /\ \E text \in Texts :
           lastCall' = [fn |-> "convertTextToRhymeGroups", input |-> text]
                       @@ convertTextToRhymeGroups(text, isMappingsLoaded, rhymeMappings)
    /\ UNCHANGED <<rhymeMappings, isMappingsLoaded, loadState, initAlerted>>
    /\ UNCHANGED analyzerVars
    /\ UNCHANGED sessionVars

GetRhymeInfoCall ==
    /\ \E pinyin \in Pinyins :
           lastCall' = [fn |-> "getRhymeInfo", input |-> pinyin]
                       @@ getRhymeInfo(pinyin, isMappingsLoaded, rhymeMappings)
    /\ UNCHANGED <<rhymeMappings, isMappingsLoaded, loadState, initAlerted>>
    /\ UNCHANGED analyzerVars
    /\ UNCHANGED sessionVars

ConverterNext == LoadCall \/ LoadSucceed \/ LoadFail \/ ConvertCall \/ GetRhymeInfoCall

(* the page before any analysis: the analyser is given the empty verse and *)
(* is not started                                                          *)
ConverterSpecInit ==
    ConverterInit /\ SessionInit /\ AnalyzerInit(<<Verse(<<>>), DefaultOptions>>)

ConverterSpec == ConverterSpecInit /\ [][ConverterNext]_vars

Spec == Init /\ [][Next]_vars

-----------------------------------------------------------------------------
(* A session of the page: analyzeRhymePatterns is called once per input    *)
(* event, one call after the other                                         *)

MaxCalls == 3

(* what a call hands back: the Error it threw, or its results and summary  *)
Outcome == [error |-> error, analysisResults |-> finalResults, summary |-> summary]

(* the verses and option settings the session draws from *)
SessionInputs ==
    ({Verse(<<>>),
      Verse(<<Line(<<GroupA1>>), Line(<<GroupA2>>)>>),
      Verse(<<Line(<<GroupA1, GroupB>>), Line(<<GroupA2, GroupB>>)>>),
      Verse(<<Line(<<GroupA1, GroupA2, GroupB, GroupA1>>)>>)}
        \X {DefaultOptions,
            Options(FALSE, TRUE, TRUE, DefaultInterLineTolerance,
                    DefaultLineDiffTolerance, DefaultInternalRhymeTolerance)})
    \cup {<<Verse(<<Line(<<GroupA1>>), [Line(<<>>) EXCEPT !.isObject = FALSE]>>),
            DefaultOptions>>}

(* mutant of EnterCall: the claimed cells of the previous call are kept *)
EnterCallKeepsClaimedCells(in) ==
    /\ verse' = in[1]
    /\ options' = in[2]
    /\ pc' = "start"
    /\ error' = NoError
    /\ allSequences' = <<>>
    /\ allPossibleMatches' = <<>>
    /\ matchIndex' = 0
    /\ UNCHANGED markedPositions
    /\ analysisResults' = <<>>
    /\ endRhymeCount' = 0
    /\ internalRhymeCount' = 0
    /\ finalResults' = <<>>
    /\ summary' = NoSummary

(* function entry: the arguments are bound and every local is declared     *)
(* anew in the body (lines 229, 232, 235, 350-352, 390-396, 414)           *)
EnterCall(in) ==
    /\ verse' = in[1]
    /\ options' = in[2]
    /\ pc' = "start"
    /\ error' = NoError
    /\ allSequences' = <<>>
    /\ allPossibleMatches' = <<>>
    /\ matchIndex' = 0
    /\ markedPositions' = {}
    /\ analysisResults' = <<>>
    /\ endRhymeCount' = 0
    /\ internalRhymeCount' = 0
    /\ finalResults' = <<>>
    /\ summary' = NoSummary

(* lines 423-427 or a throw: the call is over; the first outcome seen for  *)
(* its input is remembered                                                 *)
Return ==
    /\ pc \in {"done", "failed"}
    /\ pc' = "returned"
    /\ firstOutcome' = IF <<verse, options>> \in DOMAIN firstOutcome THEN firstOutcome
                       ELSE firstOutcome @@ (<<verse, options>> :> Outcome)
    /\ UNCHANGED <<verse, options, error, allSequences, allPossibleMatches,
                   matchIndex, markedPositions, analysisResults, endRhymeCount,
                   internalRhymeCount, finalResults, summary>>
    /\ UNCHANGED callsMade
    /\ UNCHANGED converterVars

(* app.js line 108: the next input event calls the analyser again *)
NewCall ==
    /\ pc = "returned"
    /\ callsMade < MaxCalls
    /\ \E in \in SessionInputs : EnterCall(in)
    /\ callsMade' = callsMade + 1
    /\ UNCHANGED firstOutcome
    /\ UNCHANGED converterVars

SessionNext == Next \/ Return \/ NewCall

SessionSpecInit ==
    ConverterInit /\ SessionInit /\ \E in \in SessionInputs : AnalyzerInit(in)

SessionSpec == SessionSpecInit /\ [][SessionNext]_vars

-----------------------------------------------------------------------------
(* Vocabulary of the properties *)

Range(f) == {f[k] : k \in DOMAIN f}

PositionCells(pos) == {<<pos.line, pos.char + d>> : d \in 0..(pos.length - 1)}

ResultCells(r) == PositionCells(r.positions[1]) \cup PositionCells(r.positions[2])

SpanCells(s) == {<<s.lineIndex, i>> : i \in s.startIndex..s.endIndex}

MatchCells(m) == SpanCells(m.seq1) \cup SpanCells(m.seq2)

SpanPosition(s) == [line |-> s.lineIndex, char |-> s.startIndex, length |-> s.length]

IsEndRhyme(x) == x.rhymeType = EndRhymeType(x.sequenceLength)

IsInterLineRhyme(x) == x.rhymeType = InterLineRhymeType(x.sequenceLength)

IsInternalRhyme(x) == x.rhymeType = InternalRhymeType(x.sequenceLength)

(* the candidate m is one of the committed results *)
IsCommitted(m) ==
    \E r \in Range(analysisResults) :
        /\ r.positions = <<SpanPosition(m.seq1), SpanPosition(m.seq2)>>
        /\ r.rhymeType = m.rhymeType

Finished == pc = "done" /\ Len(verse.items) > 0

CountOf(seq, P(_)) == Cardinality({k \in DOMAIN seq : P(seq[k])})

-----------------------------------------------------------------------------
(* C1: in the output, no character cell (line, index) is covered by the    *)
(* positions of two different results.                                     *)
C1_NoCellInTwoResults ==
    pc = "done" =>
        \A i, j \in DOMAIN finalResults :
            i # j => ResultCells(finalResults[i]) \cap ResultCells(finalResults[j]) = {}

(* a finished call with at least two results and a discarded candidate *)
C1_Witness ==
    /\ pc = "done"
    /\ Len(finalResults) >= 2
    /\ Len(allPossibleMatches) > Len(finalResults)

(* C2: summary.rhymeTypes.endRhyme is the number of EndRhyme results and   *)
(* summary.rhymeTypes.internalRhyme the number of results of the other two *)
(* types.                                                                  *)
C2_SummaryCountsByType ==
    pc = "done" =>
        /\ summary.rhymeTypes.endRhyme = CountOf(finalResults, IsEndRhyme)
        /\ summary.rhymeTypes.internalRhyme =
               CountOf(finalResults, IsInterLineRhyme) + CountOf(finalResults, IsInternalRhyme)

(* the candidates of the two kinds that cover a common cell *)
EndInternalConflicts ==
    {<<e, i>> \in (DOMAIN allPossibleMatches) \X (DOMAIN allPossibleMatches) :
        /\ IsEndRhyme(allPossibleMatches[e])
        /\ IsInternalRhyme(allPossibleMatches[i])
        /\ MatchCells(allPossibleMatches[e]) \cap MatchCells(allPossibleMatches[i]) # {}}

InternalResultCovers(cell) ==
    \E r \in Range(analysisResults) : IsInternalRhyme(r) /\ cell \in ResultCells(r)

BothDetected == options.detectEndRhyme /\ options.detectInternalRhyme

(* C3 as stated: whenever a cell is covered by an EndRhyme candidate and   *)
(* by an InternalRhyme candidate, the EndRhyme candidate is committed and  *)
(* no InternalRhyme result covers the cell.                                *)
C3_EndRhymeAlwaysCommitted ==
    (Finished /\ BothDetected) =>
        \A c \in EndInternalConflicts :
            /\ IsCommitted(allPossibleMatches[c[1]])
            /\ \A cell \in MatchCells(allPossibleMatches[c[1]])
                          \cap MatchCells(allPossibleMatches[c[2]]) :
                   ~InternalResultCovers(cell)

(* C3 amended: the EndRhyme candidate is committed unless one of its cells *)
(* is claimed by a committed candidate of equal or higher priority that    *)
(* was processed before it; when it is committed no InternalRhyme result   *)
(* covers the shared cell.                                                 *)
C3_EndRhymeCommittedUnlessBlocked ==
    (Finished /\ BothDetected) =>
        \A c \in EndInternalConflicts :
            LET e == allPossibleMatches[c[1]]
                i == allPossibleMatches[c[2]]
            IN  /\ \/ IsCommitted(e)
                   \/ \E k \in 1..(c[1] - 1) :
                          /\ IsCommitted(allPossibleMatches[k])
                          /\ allPossibleMatches[k].priority >= e.priority
                          /\ MatchCells(allPossibleMatches[k]) \cap MatchCells(e) # {}
                /\ IsCommitted(e) =>
                       \A cell \in MatchCells(e) \cap MatchCells(i) :
                           ~InternalResultCovers(cell)

(* a conflict in which the EndRhyme candidate was committed, and another   *)
(* in which it was discarded and the InternalRhyme candidate committed     *)
C3_Witness ==
    /\ Finished /\ BothDetected
    /\ \E c \in EndInternalConflicts : IsCommitted(allPossibleMatches[c[1]])
    /\ \E c \in EndInternalConflicts :
           /\ ~IsCommitted(allPossibleMatches[c[1]])
           /\ IsCommitted(allPossibleMatches[c[2]])

-----------------------------------------------------------------------------
(* the last character of line l (0-based) *)
LastChar(l) == verse.items[l + 1].charInfos[Len(verse.items[l + 1].charInfos)]

LastIndex(l) == Len(verse.items[l + 1].charInfos) - 1

PositionEndsLine(pos) == pos.char + pos.length - 1 = LastIndex(pos.line)

(* the EndRhyme results with one position ending each of the lines 0, 1 *)
EndRhymeOfBothLineEnds ==
    {k \in DOMAIN finalResults :
        /\ IsEndRhyme(finalResults[k])
        /\ PositionEndsLine(finalResults[k].positions[1])
        /\ PositionEndsLine(finalResults[k].positions[2])
        /\ {finalResults[k].positions[1].line, finalResults[k].positions[2].line} = {0, 1}}

ScenarioA ==
    /\ pc = "done"
    /\ Len(verse.items) = 2
    /\ ~IsUnknownLabel(LastChar(0).normalGroup)
    /\ LastChar(0).normalGroup = LastChar(1).normalGroup
    /\ options.detectEndRhyme
    /\ options.interLineLineDiffTolerance >= 1

(* no span that is not line-final has the sequenceKey of a line-final span *)
LineEndKeysUnique ==
    \A s, t \in Range(allSequences) :
        (s.isEndOfLine /\ s.sequenceKey = t.sequenceKey) => t.isEndOfLine

(* C4 as stated: two lines whose line-final characters share a known rhyme *)
(* group give exactly one EndRhyme result covering both line ends.         *)
C4_OneEndRhymeOverBothLineEnds ==
    ScenarioA => Cardinality(EndRhymeOfBothLineEnds) = 1

(* C4 amended: the same, for verses in which no span that is not           *)
(* line-final has the sequenceKey of a line-final span.                    *)
C4_OneEndRhymeWhenLineEndKeysUnique ==
    (ScenarioA /\ LineEndKeysUnique) => Cardinality(EndRhymeOfBothLineEnds) = 1

(* the amended scenario, on lines longer than their common rhyming suffix, *)
(* with a candidate that was discarded                                     *)
C4_Witness ==
    /\ ScenarioA /\ LineEndKeysUnique
    /\ Cardinality(EndRhymeOfBothLineEnds) = 1
    /\ LastIndex(0) >= 1 /\ LastIndex(1) >= 1
    /\ Len(allPossibleMatches) > Len(finalResults)

-----------------------------------------------------------------------------
(* C5: no InterLineRhyme result pairs two spans on different lines whose   *)
(* literal character strings are identical.                                *)
C5_NoInterLineSelfRepeat ==
    \A r \in Range(analysisResults) \cup Range(finalResults) :
        (IsInterLineRhyme(r) /\ r.positions[1].line # r.positions[2].line) =>
            JoinWith(r.chars[1], "") # JoinWith(r.chars[2], "")

(* a finished call in which two spans with the same characters and the     *)
(* same rhyme groups, on different lines and within the position           *)
(* tolerance, fell under the inter-line rule, and another pair gave an     *)
(* InterLineRhyme result                                                   *)
C5_Witness ==
    /\ Finished
    /\ options.detectInterLineRhyme
    /\ \E r \in Range(finalResults) : IsInterLineRhyme(r)
    /\ \E s, t \in Range(allSequences) :
           /\ s.lineIndex # t.lineIndex
           /\ Abs(s.lineIndex - t.lineIndex) <= options.interLineLineDiffTolerance
           /\ s.sequenceKey = t.sequenceKey
           /\ s.chars = t.chars
           /\ ~(options.detectEndRhyme /\ (s.isEndOfLine \/ t.isEndOfLine))
           /\ Abs(s.startIndex - t.startIndex) <= options.interLineTolerance

-----------------------------------------------------------------------------
(* the characters strictly between two spans of one line *)
Gap(s, t) ==
    Cardinality({k \in 0..LastIndex(s.lineIndex) :
        \/ s.endIndex < k /\ k < t.startIndex
        \/ t.endIndex < k /\ k < s.startIndex})

(* the ordered pairs of extracted spans that fall under the internal-rhyme *)
(* rule: same line, same sequenceKey, not taken by the end-rhyme rule      *)
InternalRulePairs ==
    {<<i, j>> \in (DOMAIN allSequences) \X (DOMAIN allSequences) :
        /\ i < j
        /\ allSequences[i].lineIndex = allSequences[j].lineIndex
        /\ allSequences[i].sequenceKey = allSequences[j].sequenceKey
        /\ options.detectInternalRhyme
        /\ ~(options.detectEndRhyme
             /\ (allSequences[i].isEndOfLine \/ allSequences[j].isEndOfLine))}

HasInternalCandidate(s, t) ==
    \E m \in Range(allPossibleMatches) :
        m.seq1 = s /\ m.seq2 = t /\ IsInternalRhyme(m)

GapBound(s, t) == Min(s.length, t.length) + options.internalRhymeTolerance

MatchesCollected == pc \in {"sort", "select", "done"} /\ Len(verse.items) > 0

(* C6: a pair under the internal-rhyme rule gives an InternalRhyme         *)
(* candidate if and only if its gap is at most min(a.length, b.length) +   *)
(* internalRhymeTolerance.                                                 *)
C6_InternalGapBoundary ==
    MatchesCollected =>
        \A p \in InternalRulePairs :
            HasInternalCandidate(allSequences[p[1]], allSequences[p[2]])
                <=> Gap(allSequences[p[1]], allSequences[p[2]])
                        <= GapBound(allSequences[p[1]], allSequences[p[2]])

(* one pair with a gap exactly at the bound, accepted, and one pair with a *)
(* gap one greater, rejected                                               *)
C6_Witness ==
    /\ MatchesCollected
    /\ \E p \in InternalRulePairs :
           /\ Gap(allSequences[p[1]], allSequences[p[2]])
                  = GapBound(allSequences[p[1]], allSequences[p[2]])
           /\ HasInternalCandidate(allSequences[p[1]], allSequences[p[2]])
    /\ \E p \in InternalRulePairs :
           /\ Gap(allSequences[p[1]], allSequences[p[2]])
                  = GapBound(allSequences[p[1]], allSequences[p[2]]) + 1
           /\ ~HasInternalCandidate(allSequences[p[1]], allSequences[p[2]])

-----------------------------------------------------------------------------
(* C7: no candidate and no result pairs spans whose line indices differ by *)
(* more than interLineLineDiffTolerance.                                   *)
C7_LineDistanceGate ==
    /\ \A m \in Range(allPossibleMatches) :
           Abs(m.seq1.lineIndex - m.seq2.lineIndex) <= options.interLineLineDiffTolerance
    /\ \A r \in Range(analysisResults) \cup Range(finalResults) :
           Abs(r.positions[1].line - r.positions[2].line)
               <= options.interLineLineDiffTolerance

(* tolerance 4, and two end-of-line spans of one rhyme group 5 lines apart *)
(* that are cells of no result although nothing else claimed them          *)
C7_Witness ==
    /\ Finished
    /\ options.interLineLineDiffTolerance = DefaultLineDiffTolerance
    /\ options.detectEndRhyme
    /\ \E s, t \in Range(allSequences) :
           /\ s.isEndOfLine /\ t.isEndOfLine
           /\ s.length = 1 /\ t.length = 1
           /\ s.sequenceKey = t.sequenceKey
           /\ t.lineIndex - s.lineIndex = DefaultLineDiffTolerance + 1
           /\ \A r \in Range(finalResults) :
                  ResultCells(r) \cap (SpanCells(s) \cup SpanCells(t)) = {}

-----------------------------------------------------------------------------
(* the spans [start, end] of line l whose characters all have a known      *)
(* normalGroup                                                             *)
KnownSpansOfLine(l) ==
    LET cs == verse.items[l + 1].charInfos
    IN  {<<l, st, en>> : <<st, en>> \in
            {se \in (0..(Len(cs) - 1)) \X (0..(Len(cs) - 1)) :
                /\ se[1] <= se[2]
                /\ \A k \in se[1]..se[2] :
                       cs[k + 1].normalGroup \notin {UnknownGroup, ""}}}

KnownSpans == UNION {KnownSpansOfLine(l) : l \in 0..(Len(verse.items) - 1)}

SpansExtracted == pc \in {"collect", "sort", "select", "done"} /\ Len(verse.items) > 0

(* C8: a span [start, end] is extracted if and only if every character in  *)
(* start..end has a known normalGroup, it carries the labels of exactly    *)
(* those characters, and no span and no result has the unknown or the      *)
(* empty label in its sequence.                                            *)
C8_OnlyKnownSpans ==
    /\ SpansExtracted =>
           /\ {<<s.lineIndex, s.startIndex, s.endIndex>> : s \in Range(allSequences)}
                  = KnownSpans
           /\ Len(allSequences) = Cardinality(KnownSpans)
           /\ \A s \in Range(allSequences) :
                  /\ s.length = s.endIndex - s.startIndex + 1
                  /\ s.sequence =
                         [k \in 1..s.length |->
                             verse.items[s.lineIndex + 1].charInfos[s.startIndex + k].normalGroup]
    /\ \A x \in Range(allSequences) \cup Range(allPossibleMatches)
                \cup Range(analysisResults) \cup Range(finalResults) :
           \A g \in Range(x.sequence) : g \notin {UnknownGroup, ""}

(* a line with an unknown and an empty label between known ones, analysed  *)
(* to the end with a result                                                *)
C8_Witness ==
    /\ Finished
    /\ Len(finalResults) >= 1
    /\ \E l \in DOMAIN verse.items :
           /\ \E c \in Range(verse.items[l].charInfos) : c.normalGroup = UnknownGroup
           /\ \E c \in Range(verse.items[l].charInfos) : c.normalGroup = ""
           /\ ~IsUnknownLabel(verse.items[l].charInfos[1].normalGroup)

-----------------------------------------------------------------------------
(* the shape of the input, stated without the order of the checks *)
LineShapeOk(group) == group.isObject /\ group.line # Undefined /\ group.charInfosIsArray

CharShapeOk(c) ==
    c.isObject /\ Undefined \notin {c.char, c.pinyin, c.normalGroup, c.strictGroup}

VerseShapeOk ==
    /\ verse.isArray
    /\ \A g \in Range(verse.items) :
           LineShapeOk(g) /\ \A c \in Range(g.charInfos) : CharShapeOk(c)

NothingProduced ==
    /\ allSequences = <<>> /\ allPossibleMatches = <<>> /\ markedPositions = {}
    /\ analysisResults = <<>> /\ finalResults = <<>> /\ summary = NoSummary

(* C9: the whole input is validated before extraction; each kind of defect *)
(* fails with its own error, and a failed call has produced nothing.       *)
C9_ValidatedBeforeAnalysis ==
    /\ Cardinality({NoError, InputShapeError, LineShapeError, CharInfoShapeError}) = 4
    /\ pc \notin {"start", "failed"} => (VerseShapeOk /\ error = NoError)
    /\ pc = "failed" =>
           /\ ~VerseShapeOk
           /\ NothingProduced
           /\ error = InputShapeError <=> ~verse.isArray
           /\ error = LineShapeError =>
                  \E g \in Range(verse.items) : ~LineShapeOk(g)
           /\ error = CharInfoShapeError =>
                  \E g \in Range(verse.items) : \E c \in Range(g.charInfos) : ~CharShapeOk(c)
           /\ error \in {InputShapeError, LineShapeError, CharInfoShapeError}
           /\ (\A g \in Range(verse.items) : LineShapeOk(g)) => error # LineShapeError
           /\ (\A g \in Range(verse.items) : \A c \in Range(g.charInfos) : CharShapeOk(c))
                  => error # CharInfoShapeError
    /\ (pc # "start" /\ ~VerseShapeOk) => pc = "failed"

(* a failed call whose first line is valid and whose second line lacks its *)
(* character array                                                         *)
C9_Witness ==
    /\ pc = "failed"
    /\ error = LineShapeError
    /\ Len(verse.items) = 2
    /\ LineShapeOk(verse.items[1])
    /\ \A c \in Range(verse.items[1].charInfos) : CharShapeOk(c)
    /\ ~verse.items[2].charInfosIsArray

-----------------------------------------------------------------------------
(* C10: while loadRhymeMappings has not completed successfully, every call *)
(* of convertTextToRhymeGroups on a text and every call of getRhymeInfo    *)
(* fails with the not-ready error.  (isMappingsLoaded never goes back to   *)
(* false, so a call recorded in a state that is not loaded was made not    *)
(* loaded.)                                                                *)
C10_NotReadyBeforeLoad ==
    (/\ loadState \in {"idle", "pending", "failed"}
     /\ lastCall.fn # "none"
     /\ lastCall.fn = "convertTextToRhymeGroups" => lastCall.input.isString) =>
        (lastCall.outcome = "threw" /\ lastCall.error = NotReadyError)

-----------------------------------------------------------------------------
(* C11: whatever was analysed before, a call on an input hands back what   *)
(* the first call on that input handed back: the same Error, or the same   *)
(* results with the same identifiers and colours and the same summary.     *)
C11_SameInputSameOutcome ==
    (pc \in {"done", "failed"} /\ <<verse, options>> \in DOMAIN firstOutcome) =>
        Outcome = firstOutcome[<<verse, options>>]

(* a later call that produced results, on an input analysed before, with   *)
(* another input analysed as well                                          *)
C11_Witness ==
    /\ pc = "done"
    /\ callsMade = MaxCalls
    /\ <<verse, options>> \in DOMAIN firstOutcome
    /\ \E other \in DOMAIN firstOutcome :
           other # <<verse, options>> /\ Len(firstOutcome[other].analysisResults) > 0
    /\ Len(finalResults) > 0

-----------------------------------------------------------------------------
(* C12: for every option setting, a call on the empty array throws nothing *)
(* and returns an empty result list and a summary with totalLines 0,       *)
(* totalRhymeCount 0, endRhyme 0 and internalRhyme 0.                      *)
C12_EmptyVerseAnalysed ==
    (verse.isArray /\ Len(verse.items) = 0 /\ pc # "start") =>
        /\ pc = "done"
        /\ error = NoError
        /\ finalResults = <<>>
        /\ summary = [totalLines |-> 0, totalRhymeCount |-> 0,
                      rhymeTypes |-> [endRhyme |-> 0, internalRhyme |-> 0]]

(* a finished call on the empty array with detection options switched off *)
C12_Witness ==
    /\ verse.isArray /\ Len(verse.items) = 0
    /\ pc = "done"
    /\ ~options.detectEndRhyme /\ ~options.detectInterLineRhyme
    /\ summary.totalLines = 0

-----------------------------------------------------------------------------
(* min(forwardDiff, reverseDiff) of two spans, from their places in the    *)
(* verse                                                                   *)
InterLineInterval(s, t) ==
    Min(Abs(s.startIndex - t.startIndex),
        Abs((LastIndex(s.lineIndex) - s.endIndex) - (LastIndex(t.lineIndex) - t.endIndex)))

(* C13: for every option setting, detectEndRhyme = false included, every   *)
(* candidate and every result classified as InterLineRhyme pairs two spans *)
(* on different lines, neither of them end-of-line, whose interval         *)
(* min(forwardDiff, reverseDiff) is at most interLineTolerance.            *)
C13_InterLineRhymeShape ==
    MatchesCollected =>
        /\ \A m \in Range(allPossibleMatches) :
               IsInterLineRhyme(m) =>
                   /\ m.seq1.lineIndex # m.seq2.lineIndex
                   /\ ~m.seq1.isEndOfLine /\ ~m.seq2.isEndOfLine
                   /\ InterLineInterval(m.seq1, m.seq2) <= options.interLineTolerance
        /\ \A r \in Range(analysisResults) :
               IsInterLineRhyme(r) =>
                   /\ r.positions[1].line # r.positions[2].line
                   /\ ~PositionEndsLine(r.positions[1])
                   /\ ~PositionEndsLine(r.positions[2])

-----------------------------------------------------------------------------
(* the candidates in generation order, before the sort of line 346 *)
GeneratedMatches == collectMatches(allSequences, verse.items, options)

(* the place of the candidate m in the list generated *)
GenerationIndex(generated, m) == CHOOSE g \in DOMAIN generated : generated[g] = m

(* the sorted list holds the generated candidates in descending priority,  *)
(* equal priorities in generation order                                    *)
ProcessedInPriorityOrder ==
    LET generated == GeneratedMatches
    IN  /\ Len(allPossibleMatches) = Len(generated)
        /\ \A k \in DOMAIN allPossibleMatches :
               allPossibleMatches[k] \in Range(generated)
        /\ LET index == [k \in DOMAIN allPossibleMatches |->
                            GenerationIndex(generated, allPossibleMatches[k])]
           IN  \A k \in 1..(Len(allPossibleMatches) - 1) :
                   \/ allPossibleMatches[k].priority > allPossibleMatches[k + 1].priority
                   \/ /\ allPossibleMatches[k].priority = allPossibleMatches[k + 1].priority
                      /\ index[k] < index[k + 1]

(* the places in the sorted list of the committed candidates *)
CommittedIndices == {k \in DOMAIN allPossibleMatches : IsCommitted(allPossibleMatches[k])}

(* the place in the sorted list of the candidate a result was made from *)
CandidateOf(r) ==
    CHOOSE k \in DOMAIN allPossibleMatches :
        /\ r.positions = <<SpanPosition(allPossibleMatches[k].seq1),
                           SpanPosition(allPossibleMatches[k].seq2)>>
        /\ r.rhymeType = allPossibleMatches[k].rhymeType

(* C14: the candidates are processed in descending priority, ties in       *)
(* generation order; a candidate is committed if and only if it shares no  *)
(* cell with a candidate committed before it; the results are listed in    *)
(* the order of processing, hence in non-increasing priority; and every    *)
(* candidate not committed shares a cell with a committed one of equal or  *)
(* higher priority.                                                        *)
C14_GreedyByPriority ==
    Finished =>
        LET committed == CommittedIndices
            cells == [k \in DOMAIN allPossibleMatches |-> MatchCells(allPossibleMatches[k])]
            made == [i \in DOMAIN analysisResults |-> CandidateOf(analysisResults[i])]
        IN  /\ ProcessedInPriorityOrder
            /\ \A k \in DOMAIN allPossibleMatches :
                   k \in committed <=>
                       \A j \in committed : j < k => cells[j] \cap cells[k] = {}
            /\ Len(analysisResults) = Cardinality(committed)
            /\ \A i \in 1..(Len(analysisResults) - 1) :
                   /\ made[i] < made[i + 1]
                   /\ allPossibleMatches[made[i]].priority
                          >= allPossibleMatches[made[i + 1]].priority
            /\ \A k \in (DOMAIN allPossibleMatches) \ committed :
                   \E j \in committed :
                       /\ allPossibleMatches[j].priority >= allPossibleMatches[k].priority
                       /\ cells[j] \cap cells[k] # {}

(* a finished call where two candidates of equal priority were both        *)
(* committed, a candidate of lower priority was committed after them, and  *)
(* a candidate was left out                                                *)
C14_Witness ==
    /\ Finished
    /\ Len(analysisResults) >= 3
    /\ Cardinality(CommittedIndices) < Len(allPossibleMatches)
    /\ \E i, j, l \in CommittedIndices :
           /\ i < j /\ j < l
           /\ allPossibleMatches[i].priority = allPossibleMatches[j].priority
           /\ allPossibleMatches[j].priority > allPossibleMatches[l].priority

-----------------------------------------------------------------------------
(* the sequenceKey of the i-th result *)
ResultKey(i) == getSequenceKey(finalResults[i].sequence)

(* the distinct sequenceKeys met in the results before the first result    *)
(* that has the key of the i-th one                                        *)
KeysMetBefore(i) ==
    LET first == CHOOSE f \in 1..i :
                     /\ ResultKey(f) = ResultKey(i)
                     /\ \A e \in 1..(f - 1) : ResultKey(e) # ResultKey(i)
    IN  {ResultKey(e) : e \in 1..(first - 1)}

DistinctResultKeys == {ResultKey(i) : i \in DOMAIN finalResults}

(* C15: the k-th distinct sequenceKey met in result order (k from 0) has   *)
(* palette entry k mod 10; results of one sequenceKey have one colour; and *)
(* with at most 10 distinct sequenceKeys, results of different             *)
(* sequenceKeys have different colours.                                    *)
C15_ColorsBySequenceKey ==
    pc = "done" =>
        /\ \A i \in DOMAIN finalResults :
               finalResults[i].color =
                   colorPalette[(Cardinality(KeysMetBefore(i)) % 10) + 1]
        /\ \A i, j \in DOMAIN finalResults :
               ResultKey(i) = ResultKey(j) => finalResults[i].color = finalResults[j].color
        /\ Cardinality(DistinctResultKeys) <= 10 =>
               \A i, j \in DOMAIN finalResults :
                   ResultKey(i) # ResultKey(j) =>
                       finalResults[i].color # finalResults[j].color

(* a finished call whose results have more than 10 distinct sequenceKeys,  *)
(* so that the palette was gone through once                               *)
C15_Witness ==
    /\ pc = "done"
    /\ Cardinality(DistinctResultKeys) > 10
    /\ finalResults[Len(finalResults)].color = finalResults[1].color

-----------------------------------------------------------------------------
(* C16: the two positions of one result are disjoint: no cell is covered   *)
(* by both spans of the same result, so a result covers as many cells as   *)
(* the two span lengths add up to.                                         *)
C16_SpansOfOneResultDisjoint ==
    pc = "done" =>
        \A r \in Range(finalResults) :
            /\ PositionCells(r.positions[1]) \cap PositionCells(r.positions[2]) = {}
            /\ Cardinality(ResultCells(r)) = r.positions[1].length + r.positions[2].length
====
